---- MODULE Spec2Model ----
(***************************************************************************)
(* Model of cst.py (Consistent Screenshot Tool): the host MainWindow, the  *)
(* full-screen Overlay it toggles, and the process-wide Qt state the       *)
(* overlay writes (mouse grab, keyboard grab, override-cursor stack).      *)
(* Every Qt slot / event handler of the source is one action.              *)
(***************************************************************************)
EXTENDS Integers, Sequences, FiniteSets, TLC

VARIABLES
    app,              \* the Qt process: "running", "traceback" (running, after
                      \* an unhandled exception was printed) or "aborted"
    config,           \* content of CONFIG_FILE on disk
    save_folder,      \* MainWindow.save_folder
    width,            \* MainWindow.width  (a PyVal)
    height,           \* MainWindow.height (a PyVal)
    hostVisible,      \* MainWindow.isVisible()
    status,           \* text of MainWindow.status
    overlay,          \* MainWindow.overlay: 0 (None) or index into overlays
    overlays,         \* the Overlay objects constructed so far, by session number
    mouseGrabber,     \* process-wide mouse grab: 0 or the grabbing overlay
    keyboardGrabber,  \* process-wide keyboard grab: 0 or the grabbing overlay
    overrideCursors,  \* QApplication's override-cursor stack
    now,              \* int(time.time())
    dirExists,        \* file system: which folders exist
    files,            \* file system: path -> image written there
    last,             \* what the visible overlay's last paint or click handler did
    history           \* per session: how often its exit steps ran, what it saved

vars == << app, config, save_folder, width, height, hostVisible, status,
           overlay, overlays, mouseGrabber, keyboardGrabber, overrideCursors,
           now, dirExists, files, last, history >>

hostVars == << config, save_folder, width, height, hostVisible, status, overlay >>
qtVars   == << mouseGrabber, keyboardGrabber, overrideCursors >>
envVars  == << now, dirExists >>
obsVars  == << last, history >>

----------------------------------------------------------------------------
(* Bounds of the model *)

MaxSessions == 2      \* overlays constructed in one run
MaxTime     == 1      \* clock seconds elapsed in one run
MaxCursor   == 1      \* pointer coordinates sampled at -MaxCursor, 0, MaxCursor
MaxFailedOpens == 1   \* open attempts left by an exception in one run

----------------------------------------------------------------------------
(* Python values held by MainWindow.width / MainWindow.height.  The class    *)
(* never assigns them in __init__, so until _load_config or _save_size       *)
(* stores an int the attribute is the inherited bound method QWidget.width.  *)

IntVal(n) == [int |-> TRUE, v |-> n]
Method    == [int |-> FALSE, v |-> 0]

Folders == {"A"}

\* Texts the user can leave in a size field, as character sequences.
SizeTexts == { <<"0">>, <<"3">>, <<"x">> }

\* Contents of config.txt a previous run can have left behind.
NoConfig  == [present |-> FALSE, valid |-> FALSE, folder |-> "", width |-> 0, height |-> 0]
Truncated == [present |-> TRUE, valid |-> FALSE, folder |-> "", width |-> 0, height |-> 0]
ConfigOf(f, w, h) == [present |-> TRUE, valid |-> TRUE, folder |-> f, width |-> w, height |-> h]
StartConfigs ==
    { NoConfig, ConfigOf("", 800, 600), ConfigOf("A", 800, 600) }

CursorPoints ==
    { <<c, -c>> : c \in {-MaxCursor, 0, MaxCursor} } \cup { <<1000, 500>> }

\* CursorPoints: what QCursor.pos() can return (the pointer is read live, never
\* stored).  ScreenOrigins: global position of the full-screen overlay window's top-left corner.
ScreenOrigins == { <<0, 0>>, <<1, 0>> }

Buttons == { "Left", "Right" }
CloseKeys == { "Ctrl+G", "Escape" }

\* What a handler of the overlay did: kind "draw" is a painter.drawRect(rect)
\* for the pointer at `at` (overlay-local); kind "click" is a grabWindow(rect)
\* for the pointer at `at` (global), followed by img.save(path); `replaced`
\* says the save overwrote a file this same overlay had saved before; kind
\* "close" is a closeEvent, `report` naming what called close().
Nothing == [kind |-> "none", session |-> 0, at |-> <<0, 0>>, rect |-> <<0, 0, 0, 0>>,
            path |-> <<"", 0>>, saved |-> FALSE, report |-> "", replaced |-> FALSE]
Drew(s, lp, rect) == [Nothing EXCEPT !.kind = "draw", !.session = s, !.at = lp,
                                     !.rect = rect]
Closed(s, by) == [Nothing EXCEPT !.kind = "close", !.session = s, !.report = by]
\* Kind "open failed": Overlay.__init__ of overlay s was left by an exception.
OpenFailed(s) == [Nothing EXCEPT !.kind = "open failed", !.session = s]
Clicked(s, gp, rect, path, ok, msg, old) ==
    [kind |-> "click", session |-> s, at |-> gp, rect |-> rect, path |-> path,
     saved |-> ok, report |-> msg, replaced |-> old]

----------------------------------------------------------------------------
(* Pure helpers *)

\* Python's // on ints with a positive divisor: floor division.
FloorDiv(a, b) == a \div b

DigitValue(c) ==
    CASE c = "0" -> 0 [] c = "1" -> 1 [] c = "2" -> 2 [] c = "3" -> 3
      [] c = "4" -> 4 [] c = "5" -> 5 [] c = "6" -> 6 [] c = "7" -> 7
      [] c = "8" -> 8 [] c = "9" -> 9 [] OTHER -> -1

\* int(text): does the text parse (else ValueError)?
IsIntText(t) == Len(t) > 0 /\ \A i \in 1..Len(t) : DigitValue(t[i]) >= 0

RECURSIVE ParseInt(_)
ParseInt(t) ==
    IF t = <<>> THEN 0
    ELSE 10 * ParseInt(SubSeq(t, 1, Len(t) - 1)) + DigitValue(t[Len(t)])

ScreenshotPathOfFirstSecond(folder, t) == << folder, 0 >>

\* f"screenshot_{timestamp}.png" joined to the folder: identified by (folder, t).
ScreenshotPath(folder, t) == << folder, t >>

CaptureRectOffByOne(gp, w, h) ==
    << gp[1] - FloorDiv(w, 2) + 1, gp[2] - FloorDiv(h, 2) + 1, w, h >>

\* Overlay.mousePressEvent lines 86-88: the rectangle handed to grabWindow.
CaptureRect(gp, w, h) ==
    << gp[1] - FloorDiv(w, 2), gp[2] - FloorDiv(h, 2), w, h >>

DrawRectRoundedUp(lp, w, h) ==
    << lp[1] - FloorDiv(w + 1, 2) + 1, lp[2] - FloorDiv(h + 1, 2) + 1, w, h >>

\* Overlay.paintEvent lines 78-82: the rectangle handed to drawRect.
DrawRect(lp, w, h) ==
    << lp[1] - FloorDiv(w, 2) + 1, lp[2] - FloorDiv(h, 2) + 1, w, h >>

\* QWidget.mapFromGlobal for a top-level window at `origin`.
MapFromGlobal(origin, gp) == << gp[1] - origin[1], gp[2] - origin[2] >>

\* QScreen.grabWindow(0, x, y, w, h): a null pixmap for an empty rectangle,
\* else a w x h image (the model passes no negative sizes).
GrabWindow(x, y, w, h) ==
    IF w <= 0 \/ h <= 0 THEN [null |-> TRUE, w |-> 0, h |-> 0]
    ELSE [null |-> FALSE, w |-> w, h |-> h]

\* QPixmap.save(path): False for a null pixmap or a missing directory.
SaveSucceeds(img, folder) == ~img.null /\ dirExists[folder]

Sessions == 1..Len(overlays)
Active(s) == s \in Sessions /\ overlays[s].visible
AnyActive == \E s \in Sessions : Active(s)

----------------------------------------------------------------------------
(* Start-up: MainWindow.__init__, _build_ui, _load_config, win.show() *)

StatusStart   == "Select a folder and set size, then Ctrl+G to preview"
StatusFolder  == "Folder set! Now press Ctrl+G to preview"
StatusRefused == "Please select a folder first!"
StatusOff     == "Preview off. Ctrl+G to preview again"

\* MainWindow._load_config: the folder is taken only if it is a directory;
\* without a config file nothing is assigned.
LoadedFolder(c, dirs) ==
    IF c.present /\ c.folder \in Folders /\ dirs[c.folder] THEN c.folder ELSE ""
LoadedSize(c, n) == IF c.present THEN IntVal(n) ELSE Method

Init ==
    /\ app = "running"
    /\ config \in StartConfigs
    /\ dirExists \in [Folders -> BOOLEAN]
    /\ save_folder = LoadedFolder(config, dirExists)
    /\ width = LoadedSize(config, config.width)
    /\ height = LoadedSize(config, config.height)
    /\ hostVisible = TRUE
    /\ status = StatusStart
    /\ overlay = 0
    /\ overlays = << >>
    /\ mouseGrabber = 0
    /\ keyboardGrabber = 0
    /\ overrideCursors = << >>
    /\ now = 0
    /\ files = << >>
    /\ last = Nothing
    /\ history = << >>

\* The event loop is dispatching events.
Alive == app \in {"running", "traceback"}

\* An exception that leaves a slot or an event handler: PyQt5 >= 5.5 calls
\* qFatal() and the process aborts; older builds print the traceback and the
\* event loop goes on.  Which one holds is a property of the installation, so
\* a process that has survived one exception survives the next.
Raise == IF app = "traceback" THEN app' = app ELSE app' \in {"traceback", "aborted"}

----------------------------------------------------------------------------
(* MainWindow settings slots *)

\* MainWindow._save_config: json.dump fails on a bound method, after open(.., "w")
\* has already truncated the file.
Serializable(w, h) == w.int /\ h.int
SavedConfig(f, w, h) == IF Serializable(w, h) THEN ConfigOf(f, w.v, h.v) ELSE Truncated

\* MainWindow.choose_folder: fld = "" is a cancelled dialog.
choose_folder(fld) ==
    /\ Alive
    /\ hostVisible
    /\ fld = "" \/ (fld \in Folders /\ dirExists[fld])
    /\ IF fld = ""
       THEN UNCHANGED << app, save_folder, config, status >>
       ELSE /\ save_folder' = fld
            /\ config' = SavedConfig(fld, width, height)
            /\ IF Serializable(width, height)
               THEN status' = StatusFolder /\ app' = app
               ELSE status' = status /\ Raise
    /\ UNCHANGED << width, height, hostVisible, overlay, overlays, files >>
    /\ UNCHANGED << qtVars, envVars, obsVars >>

\* MainWindow._save_size: editingFinished of the width or height field.
SizeAfter(old, text) == IF IsIntText(text) THEN IntVal(ParseInt(text)) ELSE old

save_size(key, text) ==
    /\ Alive
    /\ hostVisible
    /\ width' = IF key = "width" THEN SizeAfter(width, text) ELSE width
    /\ height' = IF key = "height" THEN SizeAfter(height, text) ELSE height
    /\ IF IsIntText(text)
       THEN /\ config' = SavedConfig(save_folder, width', height')
            /\ IF Serializable(width', height') THEN app' = app ELSE Raise
       ELSE UNCHANGED << config, app >>
    /\ UNCHANGED << save_folder, hostVisible, status, overlay, overlays, files >>
    /\ UNCHANGED << qtVars, envVars, obsVars >>

----------------------------------------------------------------------------
(* Overlay *)

NewHistory == [restores |-> 0, closedCalls |-> 0, failed |-> FALSE, wrote |-> {}]
\* What is remembered of a session once a closeEvent has run: `r` more runs of
\* the exit steps (lines 100-103), `c` more calls of on_closed (line 105).
Ended(hs, r, c) == [NewHistory EXCEPT !.restores = hs.restores + r,
                                      !.closedCalls = hs.closedCalls + c]

OverlayInitSwapped(w, h, folder, origin) ==
    [alive |-> TRUE, w |-> h, h |-> w, save_folder |-> folder, origin |-> origin,
     visible |-> TRUE, shortcuts |-> TRUE, timer |-> TRUE]

\* Overlay.__init__: the object after construction.
OverlayInit(w, h, folder, origin) ==
    [alive |-> TRUE, w |-> w, h |-> h, save_folder |-> folder, origin |-> origin,
     visible |-> TRUE, shortcuts |-> TRUE, timer |-> TRUE]

\* An Overlay object after Python dropped its last reference (MainWindow.overlay
\* rebound, line 215): the widget is deleted, its timer and window with it.
Destroyed ==
    [alive |-> FALSE, w |-> Method, h |-> Method, save_folder |-> "",
     origin |-> <<0, 0>>, visible |-> FALSE, shortcuts |-> FALSE, timer |-> FALSE]

\* QWidget.releaseMouse / releaseKeyboard: only the grabbing widget releases.
ReleaseGrab(grabber, s) == IF grabber = s THEN 0 ELSE grabber

RestoreOverrideCursorSkipped(stack) == stack

\* QApplication.restoreOverrideCursor: pops the stack, no-op when empty.
RestoreOverrideCursor(stack) ==
    IF stack = << >> THEN stack ELSE SubSeq(stack, 1, Len(stack) - 1)

\* What the statements of closeEvent act on.
ExitState(s) ==
    [timer |-> overlays[s].timer, mouseGrabber |-> mouseGrabber,
     keyboardGrabber |-> keyboardGrabber, overrideCursors |-> overrideCursors,
     hostVisible |-> hostVisible, status |-> status, restores |-> 0, closedCalls |-> 0]

overlay_closedKeepsHidden(q) == [q EXCEPT !.status = StatusOff]

\* MainWindow._overlay_closed
overlay_closed(q) == [q EXCEPT !.hostVisible = TRUE, !.status = StatusOff]

ExitStepsCallbackFirst ==
    << "on_closed", "timer.stop", "releaseMouse", "releaseKeyboard",
       "restoreOverrideCursor" >>

ExitStepsTimerLeftRunning ==
    << "releaseMouse", "releaseKeyboard", "restoreOverrideCursor", "on_closed" >>

\* Overlay.closeEvent, lines 100-105: its statements in program order.
ExitSteps ==
    << "timer.stop", "releaseMouse", "releaseKeyboard", "restoreOverrideCursor",
       "on_closed" >>

\* One statement of closeEvent, run by overlay s.
ExitStep(name, s, q) ==
    CASE name = "timer.stop"   -> [q EXCEPT !.timer = FALSE]
      [] name = "releaseMouse" -> [q EXCEPT !.mouseGrabber = ReleaseGrab(@, s)]
      [] name = "releaseKeyboard" ->
             [q EXCEPT !.keyboardGrabber = ReleaseGrab(@, s)]
      [] name = "restoreOverrideCursor" ->
             [q EXCEPT !.overrideCursors = RestoreOverrideCursor(@),
                       !.restores = @ + 1]
      [] name = "on_closed" -> [overlay_closed(q) EXCEPT !.closedCalls = @ + 1]

\* closeEvent run up to and including its statement number `upto` (it has
\* five): the state reached from q.
ExitRun(steps, upto, s, q) ==
    LET After(i, p) == IF i <= upto THEN ExitStep(steps[i], s, p) ELSE p
    IN  After(5, After(4, After(3, After(2, After(1, q)))))

\* The states closeEvent goes through: before its first statement, then after
\* each statement in turn.
ExitTrace(steps, s, q) ==
    [i \in 1..(Len(steps) + 1) |-> ExitRun(steps, i - 1, s, q)]

\* QWidget.close(): the closeEvent handler runs `steps`, accepts the event
\* (line 106), and the widget is hidden.
CloseWith(steps, s, by) ==
    LET q == ExitRun(steps, Len(steps), s, ExitState(s))
    IN  /\ last' = Closed(s, by)
        /\ overlays' = [overlays EXCEPT ![s].timer = q.timer, ![s].visible = FALSE]
        /\ mouseGrabber' = q.mouseGrabber
        /\ keyboardGrabber' = q.keyboardGrabber
        /\ overrideCursors' = q.overrideCursors
        /\ hostVisible' = q.hostVisible
        /\ status' = q.status
        /\ history' = [history EXCEPT ![s] = Ended(@, q.restores, q.closedCalls)]

closeEventWithoutCallback(s, by) ==
    CloseWith(SubSeq(ExitSteps, 1, Len(ExitSteps) - 1), s, by)

\* Overlay.closeEvent, run by QWidget.close(), which then hides the widget:
\* stop the timer, release both grabs, restore the cursor, call on_closed.
closeEvent(s, by) == CloseWith(ExitSteps, s, by)

\* The overlay's own QShortcuts (Ctrl+G, Escape), connected to self.close;
\* a shortcut of a hidden widget does not fire.
CloseShortcut(s, key) ==
    /\ Alive
    /\ Active(s)
    /\ overlays[s].shortcuts
    /\ closeEvent(s, key)
    /\ UNCHANGED << app, config, save_folder, width, height, overlay, files >>
    /\ UNCHANGED envVars

ToggleOffUnlessNone ==
    /\ overlay # 0
    /\ closeEvent(overlay, "toggle")
    /\ UNCHANGED << app, config, save_folder, width, height, overlay, files >>
    /\ UNCHANGED envVars

\* MainWindow.toggle_overlay, first branch: an overlay exists and is visible.
ToggleOff ==
    /\ overlay # 0 /\ overlays[overlay].visible
    /\ closeEvent(overlay, "toggle")
    /\ UNCHANGED << app, config, save_folder, width, height, overlay, files >>
    /\ UNCHANGED envVars

ToggleRefusedOpensAnyway ==
    /\ ~(overlay # 0 /\ overlays[overlay].visible)
    /\ save_folder = ""
    /\ Len(overlays) < MaxSessions
    /\ hostVisible' = FALSE
    /\ overlays' = Append(overlays, OverlayInit(width, height, save_folder, <<0, 0>>))
    /\ overlay' = Len(overlays) + 1
    /\ overrideCursors' = Append(overrideCursors, "blank")
    /\ mouseGrabber' = Len(overlays) + 1
    /\ keyboardGrabber' = Len(overlays) + 1
    /\ history' = Append(history, NewHistory)
    /\ last' = Nothing
    /\ UNCHANGED << app, config, save_folder, width, height, status, files >>
    /\ UNCHANGED envVars

\* MainWindow.toggle_overlay, lines 209-212: no folder selected.
ToggleRefused ==
    /\ ~(overlay # 0 /\ overlays[overlay].visible)
    /\ save_folder = ""
    /\ status' = StatusRefused
    /\ UNCHANGED << app, config, save_folder, width, height, hostVisible, overlay,
                    overlays, files >>
    /\ UNCHANGED << qtVars, envVars, obsVars >>

ToggleOnWithoutCheck ==
    /\ save_folder # ""
    /\ Len(overlays) < MaxSessions
    /\ hostVisible' = FALSE
    /\ overlays' = Append(overlays, OverlayInit(width, height, save_folder, <<0, 0>>))
    /\ overlay' = Len(overlays) + 1
    /\ overrideCursors' = Append(overrideCursors, "blank")
    /\ mouseGrabber' = Len(overlays) + 1
    /\ keyboardGrabber' = Len(overlays) + 1
    /\ history' = Append(history, NewHistory)
    /\ last' = Nothing
    /\ UNCHANGED << app, config, save_folder, width, height, status, files >>
    /\ UNCHANGED envVars

\* MainWindow.toggle_overlay, lines 213-219: hide the host, construct the Overlay.
ToggleOn ==
    /\ ~(overlay # 0 /\ overlays[overlay].visible)
    /\ save_folder # ""
    /\ Len(overlays) < MaxSessions
    /\ hostVisible' = FALSE
    /\ \E origin \in ScreenOrigins :
          overlays' = Append([i \in 1..Len(overlays) |->
                                 IF i = overlay THEN Destroyed ELSE overlays[i]],
                             OverlayInit(width, height, save_folder, origin))
    /\ overlay' = Len(overlays) + 1
    /\ overrideCursors' = Append(overrideCursors, "blank")
    /\ mouseGrabber' = Len(overlays) + 1
    /\ keyboardGrabber' = Len(overlays) + 1
    /\ history' = Append(history, NewHistory)
    /\ last' = Nothing
    /\ UNCHANGED << app, config, save_folder, width, height, status, files >>
    /\ UNCHANGED envVars

\* The print calls of Overlay.__init__ (lines 41, 47, 54, 59, 64, 70) write to
\* stdout and raise when that fails (line 41 also encodes a non-ASCII
\* character); each is named by the number of set-up steps done before it:
\* 1 showFullScreen, 2 setOverrideCursor, 3 grabMouse, 4 grabKeyboard,
\* 5 the two QShortcuts, 6 timer.start.
RaisePoints == { 0, 1, 2, 4, 5, 6 }

\* The overlays whose __init__ was left by an exception: never assigned to
\* MainWindow.overlay, and kept by the traceback of the exception.
FailedOpens == { s \in Sessions : overlays[s].alive /\ s # overlay }

\* The Overlay object when __init__ is left after `done` set-up steps.
OverlayBuilt(w, h, folder, origin, done) ==
    [OverlayInit(w, h, folder, origin) EXCEPT
        !.visible = done >= 1, !.shortcuts = done >= 5, !.timer = done >= 6]

\* MainWindow.toggle_overlay, lines 213-219, when a print of Overlay.__init__
\* raises: the host is hidden already (line 214), the set-up steps before the
\* print have run, self.overlay is not assigned, and neither function catches
\* the exception or undoes a step. The traceback keeps the object.
ToggleOnRaises(done) ==
    /\ Alive
    /\ ~(overlay # 0 /\ overlays[overlay].visible)
    /\ save_folder # ""
    /\ Len(overlays) < MaxSessions
    /\ Cardinality(FailedOpens) < MaxFailedOpens
    /\ hostVisible' = FALSE
    /\ \E origin \in ScreenOrigins :
          overlays' = Append(overlays,
                             OverlayBuilt(width, height, save_folder, origin, done))
    /\ overrideCursors' = IF done >= 2 THEN Append(overrideCursors, "blank")
                          ELSE overrideCursors
    /\ mouseGrabber' = IF done >= 3 THEN Len(overlays) + 1 ELSE mouseGrabber
    /\ keyboardGrabber' = IF done >= 4 THEN Len(overlays) + 1 ELSE keyboardGrabber
    /\ history' = Append(history, NewHistory)
    /\ last' = OpenFailed(Len(overlays) + 1)
    /\ Raise
    /\ UNCHANGED << config, save_folder, width, height, status, overlay, files >>
    /\ UNCHANGED envVars

toggle_overlay ==
    /\ Alive
    /\ (ToggleOff \/ ToggleRefused \/ ToggleOn)

\* Overlay.paintEvent, on every timeout of the zero-delay timer.
paintEvent(s, cursor) ==
    /\ Alive
    /\ Active(s)
    /\ overlays[s].timer
    /\ LET o  == overlays[s]
           lp == MapFromGlobal(o.origin, cursor)
       IN  IF o.w.int /\ o.h.int
           THEN /\ last' = Drew(s, lp, DrawRect(lp, o.w.v, o.h.v))
                /\ app' = app
           ELSE /\ last' = last
                /\ Raise
    /\ UNCHANGED << hostVars, overlays, files, history >>
    /\ UNCHANGED << qtVars, envVars >>

\* The file system after img.save(path) succeeded.
Written(fs, path, img) ==
    [p \in DOMAIN fs \cup {path} |->
        IF p = path THEN [w |-> img.w, h |-> img.h] ELSE fs[p]]

SaveRaises(ok) == app' = IF ok THEN app ELSE "aborted"

\* img.save(path), line 94: returns a bool and raises nothing, so the handler
\* goes on whatever the result.
SaveReturns(ok) == app' = app

\* Line 95: the message printed after img.save, whatever it returned.
Report(ok) == "Screenshot saved"

ReleasesMouseAfterClick(s) ==
    /\ mouseGrabber' = ReleaseGrab(mouseGrabber, s)
    /\ UNCHANGED << hostVars, overlays, keyboardGrabber, overrideCursors, envVars >>

\* Lines 84-96 assign no attribute of the overlay or of the host and make no
\* Qt call but grabWindow and save: "consume the click, keep overlay up".
KeepsOverlayUp(s) ==
    /\ UNCHANGED << hostVars, overlays >>
    /\ UNCHANGED << qtVars, envVars >>

\* Overlay.mousePressEvent
mousePressEvent(s, button, cursor) ==
    /\ Alive
    /\ Active(s)
    /\ IF button # "Left"
       THEN UNCHANGED << app, files, last, history >>
       ELSE LET o == overlays[s] IN
            IF ~(o.w.int /\ o.h.int)
            THEN Raise /\ UNCHANGED << files, last, history >>
            ELSE LET rect == CaptureRect(cursor, o.w.v, o.h.v)
                     img  == GrabWindow(rect[1], rect[2], rect[3], rect[4])
                     path == ScreenshotPath(o.save_folder, now)
                     ok   == SaveSucceeds(img, o.save_folder)
                 IN  /\ last' = Clicked(s, cursor, rect, path, ok, Report(ok),
                                         ok /\ path \in DOMAIN files
                                            /\ path \in history[s].wrote)
                     /\ files' = IF ok THEN Written(files, path, img) ELSE files
                     /\ history' = [history EXCEPT
                                       ![s].failed = @ \/ ~ok,
                                       ![s].wrote = IF ok THEN @ \cup {path} ELSE @]
                     /\ SaveReturns(ok)
    /\ KeepsOverlayUp(s)

----------------------------------------------------------------------------
(* Environment: the clock, the file system *)

Tick ==
    /\ Alive
    /\ now < MaxTime
    /\ now' = now + 1
    /\ UNCHANGED << app, hostVars, overlays, files, dirExists >>
    /\ UNCHANGED << qtVars, obsVars >>

DeleteFolder(f) ==
    /\ Alive
    /\ dirExists[f]
    /\ dirExists' = [dirExists EXCEPT ![f] = FALSE]
    /\ files' = [p \in {q \in DOMAIN files : q[1] # f} |-> files[p]]
    /\ UNCHANGED << app, hostVars, overlays, now >>
    /\ UNCHANGED << qtVars, obsVars >>

CreateFolder(f) ==
    /\ Alive
    /\ ~dirExists[f]
    /\ dirExists' = [dirExists EXCEPT ![f] = TRUE]
    /\ UNCHANGED << app, hostVars, overlays, files, now >>
    /\ UNCHANGED << qtVars, obsVars >>

----------------------------------------------------------------------------

Next ==
    \/ \E fld \in Folders \cup {""} : choose_folder(fld)
    \/ \E key \in {"width", "height"}, text \in SizeTexts : save_size(key, text)
    \/ toggle_overlay
    \/ \E s \in Sessions, key \in CloseKeys : CloseShortcut(s, key)
    \/ \E s \in Sessions, p \in CursorPoints : paintEvent(s, p)
    \/ \E s \in Sessions, b \in Buttons, p \in CursorPoints : mousePressEvent(s, b, p)
    \/ Tick
    \/ \E f \in Folders : DeleteFolder(f)
    \/ \E f \in Folders : CreateFolder(f)

\* Every run in which the debug output of Overlay.__init__ is written.
Spec == Init /\ [][Next]_vars

\* Runs in which stdout fails Overlay.__init__: no open attempt gets through.
NextOpenFails ==
    \/ \E fld \in Folders \cup {""} : choose_folder(fld)
    \/ \E key \in {"width", "height"}, text \in SizeTexts : save_size(key, text)
    \/ Alive /\ ToggleRefused
    \/ \E done \in RaisePoints : ToggleOnRaises(done)
    \/ \E s \in Sessions, key \in CloseKeys : CloseShortcut(s, key)
    \/ \E s \in Sessions, p \in CursorPoints : paintEvent(s, p)
    \/ \E s \in Sessions, b \in Buttons, p \in CursorPoints : mousePressEvent(s, b, p)
    \/ Tick
    \/ \E f \in Folders : DeleteFolder(f)
    \/ \E f \in Folders : CreateFolder(f)

SpecOpenFails == Init /\ [][NextOpenFails]_vars

----------------------------------------------------------------------------
(* Properties *)

\* A step in which overlay s handles a press of button b at p. Such a step
\* records the click, or nothing (other button, handler error): steps of other
\* handlers are told apart by that before the handler is compared in full.
Pressed(s, b, p) ==
    /\ Active(s)
    /\ (last'.kind = "click" /\ last'.at = p) \/ last' = last
    /\ mousePressEvent(s, b, p)

LiveW == overlays[last.session].w
LiveH == overlays[last.session].h
PositiveSize(o) == o.w.int /\ o.h.int /\ o.w.v > 0 /\ o.h.v > 0

\* q = floor(n / 2), stated without division
IsHalfFloor(q, n) == 2 * q <= n /\ n < 2 * q + 2

\* C1: for a left press with the pointer at (gx, gy) and a session region
\* w x h, w, h > 0, the rectangle handed to grabWindow is
\* (gx - floor(w/2), gy - floor(h/2), w, h), with no +1; 800x600 at (1000, 500)
\* gives (600, 200, 800, 600).
C1_CaptureRectCentered ==
    (last.kind = "click" /\ PositiveSize(overlays[last.session])) =>
        /\ IsHalfFloor(last.at[1] - last.rect[1], LiveW.v)
        /\ IsHalfFloor(last.at[2] - last.rect[2], LiveH.v)
        /\ last.rect[3] = LiveW.v /\ last.rect[4] = LiveH.v
        /\ (last.at = <<1000, 500>> /\ LiveW.v = 800 /\ LiveH.v = 600)
              => last.rect = <<600, 200, 800, 600>>

C1_Witness ==
    /\ last.kind = "click" /\ last.at = <<1000, 500>>
    /\ LiveW = IntVal(800) /\ LiveH = IntVal(600)
    /\ last.rect = <<600, 200, 800, 600>>

\* C2: for a render tick with the pointer at overlay-local (lx, ly), negative
\* coordinates included, and a region w x h, w, h > 0, odd or even, the stroked
\* rectangle is (lx - floor(w/2) + 1, ly - floor(h/2) + 1, w, h).
C2_DrawRectOffset ==
    (last.kind = "draw" /\ PositiveSize(overlays[last.session])) =>
        /\ IsHalfFloor(last.at[1] + 1 - last.rect[1], LiveW.v)
        /\ IsHalfFloor(last.at[2] + 1 - last.rect[2], LiveH.v)
        /\ last.rect[3] = LiveW.v /\ last.rect[4] = LiveH.v

C2_Witness ==
    /\ last.kind = "draw" /\ last.at = <<-2, 1>>
    /\ LiveW = IntVal(3) /\ LiveH = IntVal(600)
    /\ last.rect = <<-2, -298, 3, 600>>

\* C3: after a close of an Active overlay, by the Ctrl+G shortcut, the Escape
\* shortcut or the host's toggle, the overlay is Inactive, the mouse grab and
\* the keyboard grab are released and no override cursor is left installed.
C3_RestoredAfterClose ==
    last.kind = "close" =>
        /\ last.report \in CloseKeys \cup {"toggle"}
        /\ ~Active(last.session)
        /\ mouseGrabber = 0
        /\ keyboardGrabber = 0
        /\ overrideCursors = << >>

C3_Witness ==
    /\ last.kind = "close" /\ last.report = "Escape"
    /\ mouseGrabber = 0 /\ keyboardGrabber = 0 /\ overrideCursors = << >>

RECURSIVE TotalRestores(_)
TotalRestores(n) == IF n = 0 THEN 0 ELSE history[n].restores + TotalRestores(n - 1)

\* C4: the restore sequence runs exactly once per session: not at all while
\* the session is Active, once when it has ended, never a second time; the
\* override-cursor stack is popped exactly as often as it was pushed and closed.
C4_RestoreExactlyOnce ==
    /\ \A s \in Sessions : history[s].restores = IF Active(s) THEN 0 ELSE 1
    /\ Len(overlays) - TotalRestores(Len(overlays)) = Len(overrideCursors)

C4_Witness ==
    /\ Len(overlays) = 2
    /\ \A s \in Sessions : ~Active(s) /\ history[s].restores = 1
    /\ last.kind = "close" /\ last.report = "toggle"

\* C5: on_closed is called exactly once per session, at its transition from
\* Active to Inactive: never while the session is Active, never again later.
C5_OnClosedExactlyOnce ==
    \A s \in Sessions : history[s].closedCalls = IF Active(s) THEN 0 ELSE 1

C5_Witness ==
    /\ last.kind = "close" /\ last.report = "Ctrl+G"
    /\ history[last.session].closedCalls = 1
    /\ hostVisible /\ status = StatusOff

\* C6: a toggle while no overlay is visible and the folder is empty is refused:
\* no overlay is created, no grab taken, no cursor override pushed, no timer
\* started, and the host window stays visible.
C6_EmptyFolderRefused ==
    [][ (toggle_overlay /\ ~(overlay # 0 /\ overlays[overlay].visible)
                        /\ save_folder = "")
        => /\ UNCHANGED << overlay, overlays, qtVars, hostVisible, history >>
           /\ hostVisible' /\ ~AnyActive'
           /\ \A s \in Sessions : ~overlays'[s].timer ]_vars

C6_Witness ==
    /\ status = StatusRefused /\ save_folder = ""
    /\ hostVisible /\ overlays = << >>
    /\ mouseGrabber = 0 /\ keyboardGrabber = 0 /\ overrideCursors = << >>

\* C7: opening with width = 0 or height = 0 (any non-positive dimension) is
\* refused, so no Active session has a width or height that is <= 0.
C7_ActiveSizesPositive ==
    \A s \in Sessions :
        Active(s) => /\ ~(overlays[s].w.int /\ overlays[s].w.v <= 0)
                     /\ ~(overlays[s].h.int /\ overlays[s].h.v <= 0)

\* C8: a capture whose write fails does not end the session: the overlay is
\* still Active with both grabs, the cursor override and the timer, and a later
\* click in that session made when the folder is writable produces a file.
C8_FailedWriteKeepsSession ==
    /\ [](  (last.kind = "click" /\ ~last.saved) =>
              /\ Alive
              /\ Active(last.session) /\ overlays[last.session].timer
              /\ mouseGrabber = last.session /\ keyboardGrabber = last.session
              /\ overrideCursors = << "blank" >>  )
    /\ [][ \A s \in Sessions, p \in CursorPoints :
             (/\ history[s].failed
              /\ PositiveSize(overlays[s])
              /\ dirExists[overlays[s].save_folder]
              /\ Pressed(s, "Left", p))
             => /\ last'.saved /\ last'.path \in DOMAIN files'
                /\ Active(s)' ]_vars

C8_Witness ==
    /\ last.kind = "click" /\ last.saved
    /\ history[last.session].failed
    /\ last.path \in DOMAIN files
    /\ Active(last.session)

\* C9: when the write of a captured image fails, the click handler reports an
\* outcome that differs from that of a saved screenshot.
C9_FailedWriteReported ==
    (last.kind = "click" /\ PositiveSize(overlays[last.session]) /\ ~last.saved)
        => last.report # "Screenshot saved"

\* C10: two successful clicks of one session produce two distinct files, each
\* a w x h image: no click overwrites the file of an earlier click, also when
\* both fall in the same clock second.
C10_ClicksNeverOverwrite ==
    (last.kind = "click" /\ last.saved) =>
        /\ ~last.replaced
        /\ last.path \in DOMAIN files =>
              files[last.path] = [w |-> LiveW.v, h |-> LiveH.v]

\* C11: a left click while Active leaves the session as it was: the overlay
\* stays Active, both grabs stay held, the cursor override stays installed, the
\* timer keeps running, region and folder are unchanged, and the process goes
\* on; each click of a session with an integer region performs a capture, so
\* clicks can follow each other without re-opening the overlay.
C11_ClickKeepsSession ==
    [][ \A s \in Sessions, p \in CursorPoints :
          Pressed(s, "Left", p) =>
             /\ UNCHANGED << overlays, qtVars, hostVars, app >>
             /\ Active(s)' /\ overlays'[s].timer
             /\ mouseGrabber' = s /\ keyboardGrabber' = s
             /\ overrideCursors' = << "blank" >>
             /\ (overlays[s].w.int /\ overlays[s].h.int)
                   => (last'.kind = "click" /\ last'.session = s /\ last'.at = p)
             /\ Alive' ]_vars

C11_Witness ==
    /\ last.kind = "click" /\ last.saved
    /\ Cardinality(history[last.session].wrote) = 2
    /\ Active(last.session) /\ overlays[last.session].timer
    /\ mouseGrabber = last.session /\ keyboardGrabber = last.session

\* C12: a click that captures writes exactly one file, the one named after the
\* session's folder and the clock second of that click, holding the captured
\* image; every other file is left as it was, and a click that does not
\* capture (other button, failed save, handler error) writes nothing.
C12_OneWritePerCapture ==
    [][ \A s \in Sessions, b \in Buttons, p \in CursorPoints :
          Pressed(s, b, p) =>
             LET o        == overlays[s]
                 target   == << o.save_folder, now >>
                 captured == b = "Left" /\ o.w.int /\ o.h.int /\ last'.saved
             IN  IF captured
                 THEN /\ last'.path = target
                      /\ DOMAIN files' = DOMAIN files \cup {target}
                      /\ files'[target] = [w |-> o.w.v, h |-> o.h.v]
                      /\ \A q \in DOMAIN files : q # target => files'[q] = files[q]
                 ELSE files' = files ]_vars

C12_Witness ==
    /\ last.kind = "click" /\ last.saved /\ now = 1
    /\ last.path = << overlays[last.session].save_folder, 1 >>
    /\ DOMAIN files = { << "A", 0 >>, << "A", 1 >> }

\* What triggers a close: the overlay's shortcuts or the host's toggle.
CloseTriggers == CloseKeys \cup { "toggle" }

\* In state q of a close of overlay s, these exit steps have taken effect.
TimerStopped(q)    == ~q.timer
GrabsReleased(q, s) == q.mouseGrabber # s /\ q.keyboardGrabber # s
CursorRestored(q)  == q.overrideCursors = << >>
CalledBack(q)      == q.closedCalls > 0

\* C13: every close of an Active overlay stops the timer first, then releases
\* the grabs, then restores the override cursor, and only then calls on_closed:
\* at no point of the handler is a later step done while an earlier one is
\* not, so the host is never shown while a grab or the blank cursor remains.
C13_ExitStepsInOrder ==
    [][ \A s \in Sessions, by \in CloseTriggers :
          (Active(s) /\ closeEvent(s, by)) =>
             LET tr == ExitTrace(ExitSteps, s, ExitState(s)) IN
             /\ \A i \in 1..Len(tr) :
                   /\ (tr[i].mouseGrabber # s \/ tr[i].keyboardGrabber # s)
                         => TimerStopped(tr[i])
                   /\ CursorRestored(tr[i]) => GrabsReleased(tr[i], s)
                   /\ (CalledBack(tr[i]) \/ tr[i].hostVisible)
                         => /\ TimerStopped(tr[i]) /\ GrabsReleased(tr[i], s)
                            /\ CursorRestored(tr[i])
             /\ ~TimerStopped(tr[1]) /\ ~CursorRestored(tr[1])
             /\ tr[1].mouseGrabber = s /\ tr[1].keyboardGrabber = s
             /\ ~tr[1].hostVisible
             /\ CalledBack(tr[Len(tr)]) /\ hostVisible'
             /\ mouseGrabber' = 0 /\ keyboardGrabber' = 0
             /\ overrideCursors' = << >> /\ ~overlays'[s].timer ]_vars

C13_Witness ==
    /\ last.kind = "close" /\ last.report = "Escape"
    /\ hostVisible /\ ~overlays[last.session].timer
    /\ mouseGrabber = 0 /\ keyboardGrabber = 0 /\ overrideCursors = << >>
    /\ history[last.session].closedCalls = 1

\* C14: an open attempt that fails leaves nothing of it behind: no grab held,
\* no override cursor installed, no timer running, no overlay window shown,
\* and the host window not hidden.
C14_FailedOpenRolledBack ==
    (Alive /\ last.kind = "open failed") =>
        /\ hostVisible
        /\ overrideCursors = << >>
        /\ mouseGrabber = 0 /\ keyboardGrabber = 0
        /\ ~overlays[last.session].visible
        /\ ~overlays[last.session].timer

ActiveSessions == { s \in Sessions : Active(s) }

\* C15: at most one overlay is Active at any time, and it is the one the host
\* holds; a toggle while an overlay is Active closes that overlay and
\* constructs none, and an overlay is only constructed when none is Active.
C15_AtMostOneActive ==
    /\ [](/\ Cardinality(ActiveSessions) <= 1
          /\ \A s \in ActiveSessions : s = overlay)
    /\ [][ /\ (toggle_overlay /\ AnyActive)
              => /\ Len(overlays') = Len(overlays)
                 /\ ~AnyActive'
                 /\ last' = Closed(overlay, "toggle")
           /\ Len(overlays') > Len(overlays) => ~AnyActive ]_vars

C15_Witness ==
    /\ Len(overlays) = 2 /\ overlay = 2
    /\ ActiveSessions = { 2 }
    /\ history[1].closedCalls = 1

C17_SessionValuesFixed ==
    /\ []( last.kind \in {"click", "draw"} =>
             LET o == overlays[last.session] IN
             /\ o.w.int /\ o.h.int
             /\ last.rect[3] = o.w.v /\ last.rect[4] = o.h.v
             /\ last.kind = "click" => last.path[1] = o.save_folder )
    /\ [][ /\ \A s \in Sessions :
                Active(s) => /\ overlays'[s].w = overlays[s].w
                             /\ overlays'[s].h = overlays[s].h
                             /\ overlays'[s].save_folder = overlays[s].save_folder
           /\ Len(overlays') > Len(overlays) =>
                LET o == overlays'[Len(overlays')] IN
                /\ o.w = width /\ o.h = height /\ o.save_folder = save_folder
                /\ o.visible ]_vars

C17_Witness ==
    /\ last.kind = "draw" /\ Active(last.session)
    /\ history[last.session].wrote # {}
    /\ LiveW = IntVal(3) /\ LiveH = IntVal(600) /\ width = IntVal(3)
    /\ last.rect[3] = 3 /\ last.rect[4] = 600

C19_OverlaySizesAreIntegers ==
    \A s \in Sessions :
        overlays[s].alive => overlays[s].w.int /\ overlays[s].h.int

====
